---- MODULE Spec2Model ----
(***************************************************************************)
(* Model of the multi-panel map renderer of gis-toolkit: the layout built  *)
(* by GeoPlot.base (src/src/core.py), the geometry lookup and attribute    *)
(* join of GeoData, and the renderers of Graph (src/src/graph.py) as they  *)
(* are called by the endpoints of src/app.py, and the request handling of  *)
(* src/app.py itself (the request counter, the periodic and the manual     *)
(* cleanup, the release of the figure on every exit).                      *)
(*                                                                         *)
(* Units.  Longitudes and latitudes are integers in hundredths of a degree *)
(* (118.9 is 11890).  Canvas fractions (the rectangles given to            *)
(* inset_axes) are exact rationals <<numerator, denominator>> in lowest    *)
(* terms; the source computes them in binary floating point, so equalities *)
(* proved here hold in the source up to floating-point rounding.           *)
(* Python indexes child_axes from 0; sequences here start at 1, so the     *)
(* Python element child_axes[i] is child_axes[i + 1].                      *)
(***************************************************************************)
EXTENDS Integers, Sequences, FiniteSets, TLC

VARIABLES figures, result,
          app, request_counter, registry, rcParams, handler,
          since_reset, since_manual

render_vars == <<figures, result>>

service_vars ==
    <<app, request_counter, registry, rcParams, handler, since_reset, since_manual>>

vars == <<render_vars, service_vars>>

(***************************************************************************)
(* Bounds of the model.                                                    *)
(***************************************************************************)
MaxRows == 2
MaxPoints == 2
NThreads == 2
MaxRequests == 3

(***************************************************************************)
(* Exact rational arithmetic for canvas fractions.                         *)
(***************************************************************************)
RECURSIVE GCD(_, _)
GCD(a, b) == IF b = 0 THEN a ELSE GCD(b, a % b)

Abs(n) == IF n < 0 THEN -n ELSE n

Rat(n, d) ==
    LET g == GCD(Abs(n), Abs(d))
        s == IF d < 0 THEN -1 ELSE 1
    IN  <<(s * n) \div g, (s * d) \div g>>

RAdd(p, q) == Rat(p[1] * q[2] + q[1] * p[2], p[2] * q[2])
RSub(p, q) == Rat(p[1] * q[2] - q[1] * p[2], p[2] * q[2])
RMul(p, q) == Rat(p[1] * q[1], p[2] * q[2])
RDiv(p, q) == Rat(p[1] * q[2], p[2] * q[1])

\* n1 / d1 < n2 / d2 for positive denominators, by comparing the integer
\* parts and then the reciprocals of the fractional parts (no product of
\* two large numbers is formed)
RECURSIVE Less(_, _, _, _)
Less(n1, d1, n2, d2) ==
    IF n1 \div d1 # n2 \div d2 THEN n1 \div d1 < n2 \div d2
    ELSE IF n2 % d2 = 0 THEN FALSE
    ELSE IF n1 % d1 = 0 THEN TRUE
    ELSE Less(d2, n2 % d2, d1, n1 % d1)

RLt(p, q) == Less(p[1], p[2], q[1], q[2])
RLe(p, q) == ~RLt(q, p)

\* a decimal literal with three places: Frac(210) is 0.21
Frac(thousandths) == Rat(thousandths, 1000)

(***************************************************************************)
(* FigConfig.AREA_RANGE: the region registry, in the insertion order of    *)
(* the dict literal (the order Python enumerates it in).                   *)
(***************************************************************************)
AREA_NAMES ==
    << "taiwan", "penghu", "kinmen", "kinmen-wuqiu",
       "lienchiang", "lienchiang-dongyin", "lienchiang-juguang" >>

Bounds(a, b, c, d) == [min_x |-> a, max_x |-> b, min_y |-> c, max_y |-> d]

AREA_RANGE ==
    [a \in {AREA_NAMES[k] : k \in 1..Len(AREA_NAMES)} |->
        CASE a = "taiwan" ->
                [level |-> 0, bounds |-> Bounds(11890, 12260, 2175, 2535)]
          [] a = "penghu" ->
                [level |-> 1, bounds |-> Bounds(11930, 11974, 2316, 2386)]
          [] a = "kinmen" ->
                [level |-> 1, bounds |-> Bounds(11810, 11860, 2434, 2456)]
          [] a = "kinmen-wuqiu" ->
                [level |-> 2, bounds |-> Bounds(11942, 11950, 2496, 2502)]
          [] a = "lienchiang" ->
                [level |-> 1, bounds |-> Bounds(11986, 12010, 2612, 2630)]
          [] a = "lienchiang-dongyin" ->
                [level |-> 2, bounds |-> Bounds(12045, 12052, 2634, 2640)]
          [] a = "lienchiang-juguang" ->
                [level |-> 2, bounds |-> Bounds(11991, 12000, 2593, 2600)]]

AlphabeticalNames ==
    << "kinmen", "kinmen-wuqiu", "lienchiang", "lienchiang-dongyin",
       "lienchiang-juguang", "penghu", "taiwan" >>

\* variant: the registry enumerated in sorted order, enumerate(sorted(AREA_RANGE))
area_list_sorted == [k \in 1..Len(AlphabeticalNames) |-> <<k - 1, AlphabeticalNames[k]>>]

\* GeoPlot.__init__: area_list = [area for area in enumerate(AREA_RANGE)],
\* the pairs (i, name) with i counted from 0
area_list == [k \in 1..Len(AREA_NAMES) |-> <<k - 1, AREA_NAMES[k]>>]

(***************************************************************************)
(* GeoPlot: the layout engine.                                             *)
(***************************************************************************)
\* variant: the aspect taken as width over height of the bounding box
_cal_insert_ax_height_inverted(bounds, width) ==
    LET aspect == Rat(bounds.max_x - bounds.min_x, bounds.max_y - bounds.min_y)
        height == RMul(width, aspect)
    IN  height

\* height = width * (max_y - min_y) / (max_x - min_x)
_cal_insert_ax_height(bounds, width) ==
    LET aspect == Rat(bounds.max_y - bounds.min_y, bounds.max_x - bounds.min_x)
        height == RMul(width, aspect)
    IN  height

\* variant: the inset keeps the default limits (0, 1) of a new axes
_inset_default_limits(bounds, label, frame_on) ==
    [ label    |-> label,
      bounds   |-> bounds,
      frame_on |-> frame_on,
      xlim     |-> <<0, 1>>,
      ylim     |-> <<0, 1>> ]

\* ax.inset_axes(bounds, label=label) with the limits of the region `label`
_inset(bounds, label, frame_on) ==
    LET area_info == AREA_RANGE[label]
    IN  [ label    |-> label,
          bounds   |-> bounds,
          frame_on |-> frame_on,
          xlim     |-> <<area_info.bounds.min_x, area_info.bounds.max_x>>,
          ylim     |-> <<area_info.bounds.min_y, area_info.bounds.max_y>> ]

\* variant: juguang is given the offset of dongyin
base_juguang_low ==
    LET area_range == AREA_RANGE
        taiwan == _inset(<<Frac(0), Frac(0), Frac(1000), Frac(1000)>>, "taiwan", FALSE)
        x0 == Frac(20)
        x1 == Frac(190)
        w0 == Frac(210)
        w1 == Frac(60)
        y_1 == Frac(350)
        h_1 == _cal_insert_ax_height(area_range["penghu"].bounds, w0)
        penghu == _inset(<<x0, y_1, w0, h_1>>, "penghu", TRUE)
        y_2 == RAdd(RAdd(y_1, h_1), Frac(10))
        h_2 == _cal_insert_ax_height(area_range["kinmen"].bounds, w0)
        kinmen == _inset(<<x0, y_2, w0, h_2>>, "kinmen", TRUE)
        hw == _cal_insert_ax_height(area_range["kinmen-wuqiu"].bounds, w1)
        wuqiu == _inset(<<x1, RSub(RAdd(y_2, hw), Frac(20)), w1, hw>>,
                        "kinmen-wuqiu", TRUE)
        y_3 == RAdd(RAdd(y_2, h_2), Frac(10))
        h_3 == _cal_insert_ax_height(area_range["lienchiang"].bounds, w0)
        lienchiang == _inset(<<x0, y_3, w0, h_3>>, "lienchiang", TRUE)
        hd == _cal_insert_ax_height(area_range["lienchiang-dongyin"].bounds, w1)
        dongyin == _inset(<<x1, RSub(RAdd(y_3, hd), Frac(30)), w1, hd>>,
                          "lienchiang-dongyin", TRUE)
        hj == _cal_insert_ax_height(area_range["lienchiang-juguang"].bounds, w1)
        juguang == _inset(<<x1, RSub(RAdd(y_3, hj), Frac(30)), w1, hj>>,
                          "lienchiang-juguang", TRUE)
    IN  [ ax |-> [ axis_on |-> FALSE,
                   xlim |-> <<11893, 12270>>,
                   ylim |-> <<2150, 2550>> ],
          child_axes |-> << taiwan, penghu, kinmen, wuqiu,
                            lienchiang, dongyin, juguang >> ]

\* The figure and its top-level axes, and the seven inset axes appended to
\* ax.child_axes in the order of the _inset calls.
base ==
    LET area_range == AREA_RANGE
        taiwan == _inset(<<Frac(0), Frac(0), Frac(1000), Frac(1000)>>, "taiwan", FALSE)
        x0 == Frac(20)
        x1 == Frac(190)
        w0 == Frac(210)
        w1 == Frac(60)
        y_1 == Frac(350)
        h_1 == _cal_insert_ax_height(area_range["penghu"].bounds, w0)
        penghu == _inset(<<x0, y_1, w0, h_1>>, "penghu", TRUE)
        y_2 == RAdd(RAdd(y_1, h_1), Frac(10))
        h_2 == _cal_insert_ax_height(area_range["kinmen"].bounds, w0)
        kinmen == _inset(<<x0, y_2, w0, h_2>>, "kinmen", TRUE)
        hw == _cal_insert_ax_height(area_range["kinmen-wuqiu"].bounds, w1)
        wuqiu == _inset(<<x1, RSub(RAdd(y_2, hw), Frac(20)), w1, hw>>,
                        "kinmen-wuqiu", TRUE)
        y_3 == RAdd(RAdd(y_2, h_2), Frac(10))
        h_3 == _cal_insert_ax_height(area_range["lienchiang"].bounds, w0)
        lienchiang == _inset(<<x0, y_3, w0, h_3>>, "lienchiang", TRUE)
        hd == _cal_insert_ax_height(area_range["lienchiang-dongyin"].bounds, w1)
        dongyin == _inset(<<x1, RSub(RAdd(y_3, hd), Frac(30)), w1, hd>>,
                          "lienchiang-dongyin", TRUE)
        hj == _cal_insert_ax_height(area_range["lienchiang-juguang"].bounds, w1)
        juguang == _inset(<<x1, RAdd(RAdd(y_3, hj), Frac(50)), w1, hj>>,
                          "lienchiang-juguang", TRUE)
    IN  [ ax |-> [ axis_on |-> FALSE,
                   xlim |-> <<11893, 12270>>,
                   ylim |-> <<2150, 2550>> ],
          child_axes |-> << taiwan, penghu, kinmen, wuqiu,
                            lienchiang, dongyin, juguang >> ]

(***************************************************************************)
(* The geometry store (Shapefile.TOWN and Shapefile.COUNTY, read-only data *)
(* files outside the repository): a small dataset with the layout of the   *)
(* real one.  A feature's geometry is a set of rectangles <<min_x, min_y,  *)
(* max_x, max_y>>; a county is the union of its towns.  Penghu lies inside  *)
(* the bounding box of "taiwan" as well as that of "penghu", and Kinmen    *)
(* county has a part (Wuqiu) far from its main island, as in the real data.*)
(***************************************************************************)
Town(c, t, rect) == [COUNTYNAME |-> c, TOWNNAME |-> t, parts |-> {rect}]

TOWN_SHP ==
    << Town("Taipei", "Daan", <<12150, 2500, 12156, 2506>>),
       Town("Hualien", "Xiulin", <<12140, 2400, 12160, 2420>>),
       Town("Hualien", "Jian", <<12155, 2390, 12160, 2398>>),
       Town("Penghu", "Magong", <<11955, 2355, 11960, 2360>>),
       Town("Kinmen", "Jincheng", <<11830, 2440, 11836, 2446>>),
       Town("Kinmen", "Wuqiu", <<11945, 2498, 11948, 2500>>),
       Town("Lienchiang", "Nangan", <<11990, 2614, 11996, 2618>>),
       Town("Lienchiang", "Dongyin", <<12048, 2636, 12050, 2638>>),
       Town("Lienchiang", "Juguang", <<11993, 2595, 11997, 2598>>) >>

COUNTY_NAMES == << "Taipei", "Hualien", "Penghu", "Kinmen", "Lienchiang" >>

COUNTY_SHP ==
    [k \in 1..Len(COUNTY_NAMES) |->
        [ COUNTYNAME |-> COUNTY_NAMES[k],
          parts |-> UNION { TOWN_SHP[j].parts :
                            j \in { n \in 1..Len(TOWN_SHP) :
                                    TOWN_SHP[n].COUNTYNAME = COUNTY_NAMES[k] } } ]]

\* the classification dataset res/json/town_type_by_town.json, keyed by the
\* county name followed by the town name
TOWN_TYPE_KEYS == { <<"Hualien", "Xiulin">>, <<"Hualien", "Jian">>,
                    <<"Penghu", "Magong">>, <<"Kinmen", "Wuqiu">>,
                    <<"Lienchiang", "Juguang">> }

TOWN_TYPE ==
    [k \in TOWN_TYPE_KEYS |->
        CASE k = <<"Hualien", "Xiulin">> -> "mountain_indigenous"
          [] k = <<"Hualien", "Jian">> -> "plain_indigenous"
          [] OTHER -> "offshore"]

(***************************************************************************)
(* GeoData.                                                                *)
(***************************************************************************)
\* the bbox filter of gpd.read_file: bbox is (min_x, min_y, max_x, max_y)
Intersects(rect, bbox) ==
    /\ rect[1] <= bbox[3]
    /\ bbox[1] <= rect[3]
    /\ rect[2] <= bbox[4]
    /\ bbox[2] <= rect[4]

read_file(shp, bbox) ==
    SelectSeq(shp, LAMBDA f : \E rect \in f.parts : Intersects(rect, bbox))

get_county_gpd(bbox) == read_file(COUNTY_SHP, bbox)

get_town_gpd(bbox) == read_file(TOWN_SHP, bbox)

\* pd.DataFrame(list of dicts): the columns are the keys of the rows, so a
\* frame made of no rows has no columns
DataFrame(rows) ==
    [ columns |-> UNION { DOMAIN rows[k] : k \in 1..Len(rows) },
      rows    |-> rows ]

\* variant: only the first key of a composite key is compared
KeysEqual_first_key(f, r, left_on, right_on) == f[left_on[1]] = r[right_on[1]]

KeysEqual(f, r, left_on, right_on) ==
    \A j \in 1..Len(left_on) : f[left_on[j]] = r[right_on[j]]

RECURSIVE InnerJoin(_, _, _, _)
InnerJoin(gdf, rows, left_on, right_on) ==
    IF gdf = <<>> THEN <<>>
    ELSE LET f == Head(gdf)
             matched == SelectSeq(rows, LAMBDA r : KeysEqual(f, r, left_on, right_on))
         IN  [k \in 1..Len(matched) |-> [feat |-> f, row |-> matched[k]]]
             \o InnerJoin(Tail(gdf), rows, left_on, right_on)

\* gdf.merge(df, left_on=..., right_on=...): an inner equality join in the
\* order of the left frame; a key that is no column of df raises KeyError
merge_gdf_and_df(gdf, df, left_on, right_on) ==
    IF \E j \in 1..Len(right_on) : right_on[j] \notin df.columns
    THEN [exc |-> "KeyError", rows |-> <<>>]
    ELSE [exc |-> "none", rows |-> InnerJoin(gdf, df.rows, left_on, right_on)]

(***************************************************************************)
(* Series.min() and Series.max() of a value column (NaN for no values).    *)
(***************************************************************************)
RECURSIVE SeqMin(_)
SeqMin(vals) ==
    IF Len(vals) = 1 THEN vals[1]
    ELSE LET m == SeqMin(Tail(vals))
         IN  IF vals[1] <= m THEN vals[1] ELSE m

RECURSIVE SeqMax(_)
SeqMax(vals) ==
    IF Len(vals) = 1 THEN vals[1]
    ELSE LET m == SeqMax(Tail(vals))
         IN  IF vals[1] >= m THEN vals[1] ELSE m

NaN == <<"nan">>

Num(v) == <<"num", v>>

Column(rows, column) == [k \in 1..Len(rows) |-> rows[k][column]]

\* variant: the first value of the column taken for its minimum
column_min_first(rows, column) ==
    IF rows = <<>> THEN NaN ELSE Num(rows[1][column])

column_min(rows, column) ==
    IF rows = <<>> THEN NaN ELSE Num(SeqMin(Column(rows, column)))

column_max(rows, column) ==
    IF rows = <<>> THEN NaN ELSE Num(SeqMax(Column(rows, column)))

(***************************************************************************)
(* Graph: the renderers.  A render is the sequence of drawing events it    *)
(* performs, in order; `i` and `a` are the loop index and region name of   *)
(* the iteration that drew, and the event lands on ax.child_axes[i].       *)
(***************************************************************************)
\* variant: the tuple in the order of the bounds dict, (min_x, max_x, min_y, max_y)
BBox_dict_order(a) ==
    << AREA_RANGE[a].bounds.min_x, AREA_RANGE[a].bounds.max_x,
       AREA_RANGE[a].bounds.min_y, AREA_RANGE[a].bounds.max_y >>

BBox(a) ==
    << AREA_RANGE[a].bounds.min_x, AREA_RANGE[a].bounds.min_y,
       AREA_RANGE[a].bounds.max_x, AREA_RANGE[a].bounds.max_y >>

FigureEvent == [kind |-> "figure"]

\* gdf.boundary.plot(ax=ax.child_axes[i], color=..., linewidth=...)
BoundaryEvent(i, a, bbox, gdf, color) ==
    [ kind |-> "boundary", i |-> i, a |-> a, bbox |-> bbox,
      feats |-> gdf, color |-> color ]

Render(exc, canvas, events) ==
    [exc |-> exc, ax |-> canvas.ax, child_axes |-> canvas.child_axes, events |-> events]

RECURSIVE BoundaryLoop(_, _)
BoundaryLoop(k, events) ==
    IF k > Len(area_list) THEN events
    ELSE LET i == area_list[k][1]
             a == area_list[k][2]
             bbox == BBox(a)
             gdf == get_county_gpd(bbox)
         IN  BoundaryLoop(k + 1, Append(events, BoundaryEvent(i, a, bbox, gdf, "black")))

plot_boundary == Render("none", base, BoundaryLoop(1, <<FigureEvent>>))

\* plot_boundary_with_subsidy: the fixed category -> colour table, the
\* per-town lookup, and the fixed legend
colormap ==
    [c \in {"mountain_indigenous", "plain_indigenous", "remote", "offshore"} |->
        CASE c = "mountain_indigenous" -> "#477160"
          [] c = "plain_indigenous" -> "#A8D8B9"
          [] c = "remote" -> "#FFC145"
          [] c = "offshore" -> "#90C2E7"]

town_type_get(f) ==
    IF <<f.COUNTYNAME, f.TOWNNAME>> \in DOMAIN TOWN_TYPE
    THEN TOWN_TYPE[<<f.COUNTYNAME, f.TOWNNAME>>]
    ELSE "None"

colormap_get(x) == IF x \in DOMAIN colormap THEN colormap[x] ELSE "#ffffff00"

SubsidyLegend ==
    [ kind |-> "legend",
      handles |-> << [color |-> "#477160", label |-> "mountain_indigenous"],
                     [color |-> "#7FB685", label |-> "plain_indigenous"],
                     [color |-> "#FFC145", label |-> "remote"],
                     [color |-> "#90C2E7", label |-> "offshore"] >> ]

RECURSIVE SubsidyLoop(_, _)
SubsidyLoop(k, events) ==
    IF k > Len(area_list) THEN events
    ELSE LET i == area_list[k][1]
             a == area_list[k][2]
             bbox == BBox(a)
             county_gdf == get_county_gpd(bbox)
             town_gdf == get_town_gpd(bbox)
             coloured ==
                 [n \in 1..Len(town_gdf) |->
                     [ feat |-> town_gdf[n],
                       town_type |-> town_type_get(town_gdf[n]),
                       color |-> colormap_get(town_type_get(town_gdf[n])) ]]
         IN  SubsidyLoop(k + 1,
                 events \o
                 << BoundaryEvent(i, a, bbox, county_gdf, "black"),
                    BoundaryEvent(i, a, bbox, town_gdf, "gray"),
                    [ kind |-> "town_fill", i |-> i, a |-> a, bbox |-> bbox,
                      feats |-> coloured ] >>)

plot_boundary_with_subsidy ==
    Render("none", base, Append(SubsidyLoop(1, <<FigureEvent>>), SubsidyLegend))

\* gdf.plot(ax=ax.child_axes[i], column=column, cmap=cmap): no vmin/vmax is
\* passed, so the plot normalises with the minimum and maximum of the
\* column of the frame it is given
FillEvent(i, a, bbox, merged, column, cmap) ==
    LET rows == [k \in 1..Len(merged) |-> merged[k].row]
    IN  [ kind |-> "fill", i |-> i, a |-> a, bbox |-> bbox,
          feats |-> merged, cmap |-> cmap,
          vmin |-> column_min(rows, column),
          vmax |-> column_max(rows, column) ]

\* variant: vmin and vmax passed in the wrong order
_colorbar_swapped(vmin, vmax, cmap, colorbar_format, colorbar_tick_visible) ==
    [ kind |-> "colorbar", vmin |-> vmax, vmax |-> vmin, cmap |-> cmap,
      format |-> colorbar_format,
      locator |-> IF colorbar_tick_visible THEN "MaxNLocator" ELSE "NullLocator" ]

\* one legend on the top-level axes; without ticks the bar is still drawn
_colorbar(vmin, vmax, cmap, colorbar_format, colorbar_tick_visible) ==
    [ kind |-> "colorbar", vmin |-> vmin, vmax |-> vmax, cmap |-> cmap,
      format |-> colorbar_format,
      locator |-> IF colorbar_tick_visible THEN "MaxNLocator" ELSE "NullLocator" ]

\* the per-region loop of plot_choropleth; an exception ends it
RECURSIVE ChoroplethLoop(_, _, _)
ChoroplethLoop(params, k, events) ==
    IF k > Len(area_list) THEN [exc |-> "none", events |-> events]
    ELSE LET i == area_list[k][1]
             a == area_list[k][2]
             bbox == BBox(a)
             gdf == IF params.level = "town"
                    THEN get_town_gpd(bbox)
                    ELSE get_county_gpd(bbox)
             merged ==
                 merge_gdf_and_df(
                     gdf, params.data,
                     IF params.level = "town"
                         THEN <<"COUNTYNAME", "TOWNNAME">> ELSE <<"COUNTYNAME">>,
                     IF params.level = "town"
                         THEN <<"county", "town">> ELSE <<"county">>)
             county_edge == get_county_gpd(bbox)
         IN  IF merged.exc # "none"
             THEN [exc |-> merged.exc, events |-> events]
             ELSE IF merged.rows = <<>>
             THEN ChoroplethLoop(params, k + 1,
                      Append(events, BoundaryEvent(i, a, bbox, county_edge, "black")))
             ELSE ChoroplethLoop(params, k + 1,
                      events \o
                      << FillEvent(i, a, bbox, merged.rows, params.column, params.cmap),
                         BoundaryEvent(i, a, bbox, county_edge, "black") >>)

plot_choropleth(params) ==
    LET loop == ChoroplethLoop(params, 1, <<FigureEvent>>)
    IN  IF loop.exc # "none"
        THEN Render(loop.exc, base, loop.events)
        ELSE Render("none", base,
                 Append(loop.events,
                        _colorbar(column_min(params.data.rows, params.column),
                                  column_max(params.data.rows, params.column),
                                  params.cmap, params.colorbar_format,
                                  params.colorbar_tick_visible)))

BinOf_clamped(v, lo, hi, bins) ==
    IF v < lo THEN 1
    ELSE IF v >= hi THEN bins
    ELSE ((v - lo) * bins) \div (hi - lo) + 1

\* numpy.histogram2d along one axis: the bin, from 1 to bins, of v among the
\* equal bins of [lo, hi], whose last bin includes hi; 0 for a value outside
\* the range, which is not counted
BinOf(v, lo, hi, bins) ==
    IF v < lo \/ v > hi THEN 0
    ELSE IF v = hi THEN bins
    ELSE ((v - lo) * bins) \div (hi - lo) + 1

\* numpy.histogram2d(x, y, bins, range): the count of every bin that is not
\* empty, as a function of the bin <<column, row>>
histogram2d(x, y, bins, range) ==
    LET bin(j) == << BinOf(x[j], range[1][1], range[1][2], bins),
                     BinOf(y[j], range[2][1], range[2][2], bins) >>
        counted == { j \in 1..Len(x) : bin(j)[1] # 0 /\ bin(j)[2] # 0 }
    IN  [ c \in { bin(j) : j \in counted } |->
              Cardinality({ j \in counted : bin(j) = c }) ]

\* Axes.hist2d -> numpy.histogram2d: x and y of different lengths raise;
\* then h[h < cmin] = None, and pcolormesh draws the bins that are left
RECURSIVE Hist2dLoop(_, _, _)
Hist2dLoop(params, k, events) ==
    IF k > Len(area_list) THEN [exc |-> "none", events |-> events]
    ELSE LET i == area_list[k][1]
             a == area_list[k][2]
             bounds == AREA_RANGE[a].bounds
             range == << <<bounds.min_x, bounds.max_x>>,
                         <<bounds.min_y, bounds.max_y>> >>
             h == histogram2d(params.x, params.y, params.bins, range)
         IN  IF Len(params.x) # Len(params.y)
             THEN [exc |-> "ValueError", events |-> events]
             ELSE Hist2dLoop(params, k + 1,
                      Append(events,
                          [ kind |-> "hist2d", i |-> i, a |-> a,
                            x |-> params.x, y |-> params.y,
                            bins |-> params.bins, cmap |-> params.cmap,
                            alpha |-> params.alpha, cmin |-> params.cmin,
                            range |-> range, h |-> h,
                            drawn |-> { c \in DOMAIN h : h[c] >= params.cmin } ]))

plot_hist2d(params) ==
    LET loop == Hist2dLoop(params, 1, plot_boundary.events)
    IN  Render(loop.exc, base, loop.events)

\* Axes.scatter(x, y, s=s, c=c): raises ValueError unless x and y have the
\* same size, s has one element or one per point, and c has none, one or
\* one per point.  A scalar s and a colour name c are sequences of length 1.
ScatterError(x, y, s, c) ==
    IF Len(x) # Len(y) THEN "ValueError"
    ELSE IF Len(s) \notin {1, Len(x)} THEN "ValueError"
    ELSE IF Len(c) \notin {0, 1, Len(x)} THEN "ValueError"
    ELSE "none"

RECURSIVE ScatterLoop(_, _, _, _)
ScatterLoop(params, edgecolor, k, events) ==
    IF k > Len(area_list) THEN [exc |-> "none", events |-> events]
    ELSE LET i == area_list[k][1]
             a == area_list[k][2]
             exc == ScatterError(params.x, params.y, params.size, params.color)
         IN  IF exc # "none"
             THEN [exc |-> exc, events |-> events]
             ELSE ScatterLoop(params, edgecolor, k + 1,
                      Append(events,
                          [ kind |-> "scatter", i |-> i, a |-> a,
                            x |-> params.x, y |-> params.y,
                            s |-> params.size, c |-> params.color,
                            alpha |-> params.alpha, edgecolor |-> edgecolor ]))

plot_dot_second_canvas(params) ==
    LET loop == ScatterLoop(params, "face", 1,
                            Append(plot_boundary.events, FigureEvent))
    IN  Render(loop.exc, base, loop.events)

plot_dot(params) ==
    LET loop == ScatterLoop(params, "face", 1, plot_boundary.events)
    IN  Render(loop.exc, base, loop.events)

plot_bubble(params) ==
    LET loop == ScatterLoop(params, "black", 1, plot_boundary.events)
    IN  Render(loop.exc, base, loop.events)

(***************************************************************************)
(* The parameter objects, as the endpoints of app.py build them from the   *)
(* request bodies.  None of them checks a length.                          *)
(***************************************************************************)
\* create_choropleth: df = pd.DataFrame(data.data)
ChoroplethParams(data, column, level, cmap, colorbar_format, colorbar_tick_visible) ==
    [ data |-> DataFrame(data), column |-> column, level |-> level, cmap |-> cmap,
      colorbar_format |-> colorbar_format,
      colorbar_tick_visible |-> colorbar_tick_visible ]

Hist2DParams(x, y, bins, cmap, alpha, cmin) ==
    [x |-> x, y |-> y, bins |-> bins, cmap |-> cmap, alpha |-> alpha, cmin |-> cmin]

DotParams(x, y, size, color, alpha) ==
    [x |-> x, y |-> y, size |-> <<size>>, color |-> <<color>>, alpha |-> alpha]

\* an optional argument: <<>> is None, <<v>> is the value v
None == <<>>

Some(v) == <<v>>

Repeat(v, n) == [k \in 1..n |-> v]

\* BubbleParams.__post_init__: a missing size is [1] * len(x), a missing
\* color is ["red"] * len(x)
BubbleParams(x, y, size, color, alpha) ==
    [ x |-> x, y |-> y,
      size |-> IF size = None THEN Repeat(1, Len(x)) ELSE size[1],
      color |-> IF color = None THEN Repeat("red", Len(x)) ELSE color[1],
      alpha |-> alpha ]

(***************************************************************************)
(* Inputs.                                                                 *)
(***************************************************************************)
SeqsUpTo(S, n) == UNION { [1..k -> S] : k \in 0..n }

Row(c, t, v) == [county |-> c, town |-> t, value |-> v]

RowPool ==
    { Row("Taipei", "Daan", 10), Row("Penghu", "Magong", 20),
      Row("Kinmen", "Wuqiu", 30), Row("Atlantis", "Nowhere", 20) }

\* ChoroplethData.level is Optional[str]: any string is accepted
LevelPool == {"county", "town", "village"}

XPool == {11957, 10000}

YPool == {2360, 2000}

\* Hist2DData.bins and Hist2DData.cmin: the defaults 100 and 1, and others
BinsPool == {100, 3}

CminPool == {1, 2}

BubbleXPool == {11957}

BubbleYPool == {2360}

SizePool == {10}

ColorPool == {"red"}

OptionalSeqs(S) == {None} \cup { Some(q) : q \in SeqsUpTo(S, MaxPoints) }

\* the request model of POST /bubble: a field left out of the body takes the
\* default of its Field, a list of six entries (the example data)
BubbleData(x, y, size, color) ==
    [ x |-> IF x = None THEN <<12096, 12096, 12096, 11957, 11830, 11990>>
            ELSE x[1],
      y |-> IF y = None THEN <<2370, 2370, 2370, 2357, 2440, 2620>> ELSE y[1],
      size |-> IF size = None THEN <<10, 20, 30, 40, 50, 60>> ELSE size[1],
      color |-> IF color = None
                THEN <<"red", "blue", "green", "yellow", "purple", "orange">>
                ELSE color[1],
      alpha |-> 50 ]

(***************************************************************************)
(* The state: the figures open in pyplot's registry, and the outcome of    *)
(* the render call in hand (what it drew, and the exception it raised).    *)
(* The caller (handle_plot_request) makes one render call at a time and    *)
(* encodes or cleans up before the next.  The specification Spec explores  *)
(* the renderers with that caller taken as one step per phase and leaves   *)
(* the service state (the request counter, the handlers) as it starts;     *)
(* SpecService and SpecThreads below explore the caller step by step with  *)
(* the renderer reduced to its outcome.                                    *)
(***************************************************************************)
NoResult == [op |-> "none"]

NumFigures(render) ==
    Cardinality({ k \in 1..Len(render.events) : render.events[k].kind = "figure" })

\* the callers of handle_plot_request
Threads == 1..NThreads

\* a handler that is not serving a request.  pc is its position in
\* handle_plot_request, tmp the value `request_counter += 1` has loaded,
\* status the response of its last request and failed the call that raised.
IdleHandler == [pc |-> "idle", tmp |-> 0, status |-> "none", failed |-> "none"]

\* the state once app.py is imported: request_counter = 0 (line 14),
\* graph.py has set rcParams["figure.max_open_warning"], no figure is open
Init ==
    /\ figures = 0
    /\ result = NoResult
    /\ app = "imported"
    /\ request_counter = 0
    /\ registry = {}
    /\ rcParams = "graph.py"
    /\ handler = [t \in Threads |-> IdleHandler]
    /\ since_reset = 0
    /\ since_manual = None

Outcome(op, params, render) == [op |-> op, params |-> params, render |-> render]

NoParams == <<>>

\* handle_plot_request, `fig, _ = plot_func(*args, **kwargs)`, for each of
\* the plot functions the endpoints pass
call_plot_boundary ==
    /\ result = NoResult
    /\ result' = Outcome("plot_boundary", NoParams, plot_boundary)
    /\ figures' = figures + NumFigures(result'.render)
    /\ UNCHANGED service_vars

call_plot_boundary_with_subsidy ==
    /\ result = NoResult
    /\ result' = Outcome("plot_boundary_with_subsidy", NoParams,
                         plot_boundary_with_subsidy)
    /\ figures' = figures + NumFigures(result'.render)
    /\ UNCHANGED service_vars

call_plot_choropleth ==
    /\ result = NoResult
    /\ \E data \in SeqsUpTo(RowPool, MaxRows), level \in LevelPool,
          tick \in BOOLEAN :
           LET params == ChoroplethParams(data, "value", level, "GnBu",
                                          "{x:,.0f}", tick)
           IN  result' = Outcome("plot_choropleth", params, plot_choropleth(params))
    /\ figures' = figures + NumFigures(result'.render)
    /\ UNCHANGED service_vars

call_plot_dot ==
    /\ result = NoResult
    /\ \E x \in SeqsUpTo(XPool, MaxPoints), y \in SeqsUpTo(YPool, MaxPoints) :
           LET params == DotParams(x, y, 10, "red", 50)
           IN  result' = Outcome("plot_dot", params, plot_dot(params))
    /\ figures' = figures + NumFigures(result'.render)
    /\ UNCHANGED service_vars

call_plot_hist2d ==
    /\ result = NoResult
    /\ \E x \in SeqsUpTo(XPool, MaxPoints), y \in SeqsUpTo(YPool, MaxPoints),
          bins \in BinsPool, cmin \in CminPool :
           LET params == Hist2DParams(x, y, bins, "GnBu", 50, cmin)
           IN  result' = Outcome("plot_hist2d", params, plot_hist2d(params))
    /\ figures' = figures + NumFigures(result'.render)
    /\ UNCHANGED service_vars

call_plot_bubble ==
    /\ result = NoResult
    /\ \E x \in OptionalSeqs(BubbleXPool), y \in OptionalSeqs(BubbleYPool),
          size \in OptionalSeqs(SizePool), color \in OptionalSeqs(ColorPool) :
           LET data == BubbleData(x, y, size, color)
               params == BubbleParams(data.x, data.y, Some(data.size),
                                      Some(data.color), data.alpha)
           IN  result' = (Outcome("plot_bubble", params, plot_bubble(params))
                            @@ [request |-> [x |-> x, y |-> y, size |-> size,
                                             color |-> color]])
    /\ figures' = figures + NumFigures(result'.render)
    /\ UNCHANGED service_vars

\* fig_to_image: savefig, then plt.close(fig) in the finally clause
fig_to_image ==
    /\ result # NoResult
    /\ result.render.exc = "none"
    /\ figures' = figures - 1
    /\ result' = NoResult
    /\ UNCHANGED service_vars

\* fig_to_image when savefig raises: plt.close(fig) in the finally clause,
\* then the except clause of handle_plot_request: Graph.cleanup_memory
fig_to_image_raises ==
    /\ result # NoResult
    /\ result.render.exc = "none"
    /\ figures' = 0
    /\ result' = NoResult
    /\ UNCHANGED service_vars

\* Graph.cleanup_memory, called by handle_plot_request when the render
\* raised: plt.close("all")
cleanup_memory ==
    /\ result # NoResult
    /\ result.render.exc # "none"
    /\ figures' = 0
    /\ result' = NoResult
    /\ UNCHANGED service_vars

Next ==
    \/ call_plot_boundary
    \/ call_plot_boundary_with_subsidy
    \/ call_plot_choropleth
    \/ call_plot_dot
    \/ call_plot_hist2d
    \/ call_plot_bubble
    \/ fig_to_image
    \/ fig_to_image_raises
    \/ cleanup_memory

Spec == Init /\ [][Next]_vars

(***************************************************************************)
(* The service of src/app.py, step by step.  A handler t runs              *)
(* handle_plot_request: cleanup_memory_if_needed (the load and the store   *)
(* of `request_counter += 1`, then the test and the purge), plot_func,     *)
(* fig_to_image, and the except clause.  plot_func is reduced to its       *)
(* outcome: it returns the figure it built, or raises after building it    *)
(* (the geometry files are read, the join and the drawing are made after   *)
(* base()), or raises before building it (plot_boundary_with_subsidy       *)
(* opens its classification file before base()).  registry is the set of   *)
(* handlers whose figure is open in pyplot's registry, which                *)
(* plt.close("all") empties whoever owns the figures.                      *)
(***************************************************************************)
CLEANUP_INTERVAL == 50

AllIdle == \A u \in Threads : handler[u].pc = "idle"

\* lifespan, before the yield: request_counter = 0 and Graph.cleanup_memory
lifespan_startup ==
    /\ app = "imported"
    /\ app' = "serving"
    /\ request_counter' = 0
    /\ registry' = {}
    /\ rcParams' = "defaults"
    /\ since_reset' = 0
    /\ UNCHANGED <<handler, since_manual>>
    /\ UNCHANGED render_vars

\* lifespan, after the yield: Graph.cleanup_memory
lifespan_shutdown ==
    /\ app = "serving"
    /\ AllIdle
    /\ app' = "stopped"
    /\ registry' = {}
    /\ rcParams' = "defaults"
    /\ UNCHANGED <<request_counter, handler, since_reset, since_manual>>
    /\ UNCHANGED render_vars

\* handle_plot_request is entered and cleanup_memory_if_needed loads
\* request_counter, the first half of `request_counter += 1`
handle_plot_request(t) ==
    /\ app = "serving"
    /\ handler[t].pc = "idle"
    /\ handler' = [handler EXCEPT ![t] =
           [pc |-> "store", tmp |-> request_counter, status |-> "none",
            failed |-> "none"]]
    /\ since_reset' = since_reset + 1
    /\ since_manual' = IF since_manual = None THEN None
                       ELSE Some(since_manual[1] + 1)
    /\ UNCHANGED <<app, request_counter, registry, rcParams>>
    /\ UNCHANGED render_vars

\* the second half of `request_counter += 1`: the store
increment_request_counter(t) ==
    /\ handler[t].pc = "store"
    /\ request_counter' = handler[t].tmp + 1
    /\ handler' = [handler EXCEPT ![t].pc = "check", ![t].tmp = 0]
    /\ UNCHANGED <<app, registry, rcParams, since_reset, since_manual>>
    /\ UNCHANGED render_vars

cleanup_memory_if_needed_no_reset(t) ==
    /\ handler[t].pc = "check"
    /\ IF request_counter >= CLEANUP_INTERVAL
       THEN /\ registry' = {}
            /\ rcParams' = "defaults"
            /\ since_reset' = 0
            /\ since_manual' = None
            /\ UNCHANGED request_counter
       ELSE UNCHANGED <<registry, rcParams, request_counter, since_reset,
                        since_manual>>
    /\ handler' = [handler EXCEPT ![t].pc = "plot"]
    /\ UNCHANGED app
    /\ UNCHANGED render_vars

cleanup_memory_if_needed_above(t) ==
    /\ handler[t].pc = "check"
    /\ IF request_counter > CLEANUP_INTERVAL
       THEN /\ registry' = {}
            /\ rcParams' = "defaults"
            /\ request_counter' = 0
            /\ since_reset' = 0
            /\ since_manual' = None
       ELSE UNCHANGED <<registry, rcParams, request_counter, since_reset,
                        since_manual>>
    /\ handler' = [handler EXCEPT ![t].pc = "plot"]
    /\ UNCHANGED app
    /\ UNCHANGED render_vars

\* the rest of cleanup_memory_if_needed: when the counter has reached
\* CLEANUP_INTERVAL, Graph.cleanup_memory (plt.close("all"),
\* plt.rcdefaults()) and request_counter = 0
cleanup_memory_if_needed(t) ==
    /\ handler[t].pc = "check"
    /\ IF request_counter >= CLEANUP_INTERVAL
       THEN /\ registry' = {}
            /\ rcParams' = "defaults"
            /\ request_counter' = 0
            /\ since_reset' = 0
            /\ since_manual' = None
       ELSE UNCHANGED <<registry, rcParams, request_counter, since_reset,
                        since_manual>>
    /\ handler' = [handler EXCEPT ![t].pc = "plot"]
    /\ UNCHANGED app
    /\ UNCHANGED render_vars

\* `fig, _ = plot_func(*args, **kwargs)`
plot_func(t) ==
    /\ handler[t].pc = "plot"
    /\ \E outcome \in {"returns", "raises_after_base", "raises_before_base"} :
          /\ registry' = IF outcome = "raises_before_base" THEN registry
                         ELSE registry \cup {t}
          /\ handler' = [handler EXCEPT
                 ![t].pc = IF outcome = "returns" THEN "encode" ELSE "except",
                 ![t].failed = IF outcome = "returns" THEN "none" ELSE outcome]
    /\ UNCHANGED <<app, request_counter, rcParams, since_reset, since_manual>>
    /\ UNCHANGED render_vars

\* `img_buf = fig_to_image(fig)`: savefig returns or raises, and
\* plt.close(fig) in the finally clause either way; when it returned the
\* response is made
encode_figure(t) ==
    /\ handler[t].pc = "encode"
    /\ registry' = registry \ {t}
    /\ \E saved \in BOOLEAN :
          handler' = [handler EXCEPT
              ![t].pc = IF saved THEN "idle" ELSE "except",
              ![t].status = IF saved THEN "200" ELSE "none",
              ![t].failed = IF saved THEN "none" ELSE "savefig_raises"]
    /\ UNCHANGED <<app, request_counter, rcParams, since_reset, since_manual>>
    /\ UNCHANGED render_vars

handle_exception_no_cleanup(t) ==
    /\ handler[t].pc = "except"
    /\ handler' = [handler EXCEPT ![t].pc = "idle", ![t].status = "500"]
    /\ UNCHANGED <<registry, rcParams, app, request_counter, since_reset,
                   since_manual>>
    /\ UNCHANGED render_vars

\* the except clause of handle_plot_request: Graph.cleanup_memory, then
\* HTTPException(status_code=500)
handle_exception(t) ==
    /\ handler[t].pc = "except"
    /\ registry' = {}
    /\ rcParams' = "defaults"
    /\ handler' = [handler EXCEPT ![t].pc = "idle", ![t].status = "500"]
    /\ UNCHANGED <<app, request_counter, since_reset, since_manual>>
    /\ UNCHANGED render_vars

manual_cleanup_keeps_counter ==
    /\ app = "serving"
    /\ registry' = {}
    /\ rcParams' = "defaults"
    /\ since_manual' = Some(0)
    /\ UNCHANGED <<app, handler, request_counter, since_reset>>
    /\ UNCHANGED render_vars

\* POST /cleanup: Graph.cleanup_memory and request_counter = 0
manual_cleanup ==
    /\ app = "serving"
    /\ registry' = {}
    /\ rcParams' = "defaults"
    /\ request_counter' = 0
    /\ since_reset' = 0
    /\ since_manual' = Some(0)
    /\ UNCHANGED <<app, handler>>
    /\ UNCHANGED render_vars

\* the service as app.py runs it: every endpoint is an `async def` that
\* calls handle_plot_request without awaiting, so the event loop serves one
\* request at a time
NextService ==
    \/ lifespan_startup
    \/ lifespan_shutdown
    \/ \E t \in Threads : AllIdle /\ handle_plot_request(t)
    \/ \E t \in Threads : increment_request_counter(t)
    \/ \E t \in Threads : cleanup_memory_if_needed(t)
    \/ \E t \in Threads : plot_func(t)
    \/ \E t \in Threads : encode_figure(t)
    \/ \E t \in Threads : handle_exception(t)
    \/ AllIdle /\ manual_cleanup

SpecService == Init /\ [][NextService]_vars

\* handle_plot_request called from separate threads at once, for at most
\* MaxRequests requests
NextThreads ==
    \/ lifespan_startup
    \/ lifespan_shutdown
    \/ \E t \in Threads : since_reset < MaxRequests /\ handle_plot_request(t)
    \/ \E t \in Threads : increment_request_counter(t)
    \/ \E t \in Threads : cleanup_memory_if_needed(t)
    \/ \E t \in Threads : plot_func(t)
    \/ \E t \in Threads : encode_figure(t)
    \/ \E t \in Threads : handle_exception(t)

SpecThreads == Init /\ [][NextThreads]_vars

(***************************************************************************)
(* Vocabulary of the properties.                                           *)
(***************************************************************************)
Rendered == result # NoResult

PanelKinds == {"boundary", "fill", "town_fill", "hist2d", "scatter"}

\* the events drawn on the panel ax.child_axes[i], in drawing order
PanelEvents(render, i) ==
    SelectSeq(render.events, LAMBDA e : e.kind \in PanelKinds /\ e.i = i)

EventsOfKind(events, kind) == SelectSeq(events, LAMBDA e : e.kind = kind)

\* the k-th region of the registry, in enumeration order
Region(k) == AREA_RANGE[AREA_NAMES[k]]

ExtentIsRegion(panel, k) ==
    /\ panel.xlim = <<Region(k).bounds.min_x, Region(k).bounds.max_x>>
    /\ panel.ylim = <<Region(k).bounds.min_y, Region(k).bounds.max_y>>

RegionBox(k) ==
    << Region(k).bounds.min_x, Region(k).bounds.min_y,
       Region(k).bounds.max_x, Region(k).bounds.max_y >>

InRegion(f, k) == \E rect \in f.parts : Intersects(rect, RegionBox(k))

\* height / width of a panel rectangle (x, y, w, h)
RectRatio(rect) == RDiv(rect[4], rect[3])

BBoxRatio(k) ==
    Rat(Region(k).bounds.max_y - Region(k).bounds.min_y,
        Region(k).bounds.max_x - Region(k).bounds.min_x)

(***************************************************************************)
(* C1.  Every canvas has n + 1 panels for the n regions of the registry:   *)
(* the top-level axes and n nested panels, and the i-th nested panel has   *)
(* the x and y limits of the bounding box of the i-th entry of area_list.  *)
(***************************************************************************)
C1_PanelsFollowRegistry ==
    Rendered =>
        /\ Len(<<result.render.ax>> \o result.render.child_axes) = Len(AREA_NAMES) + 1
        /\ Len(area_list) = Len(AREA_NAMES)
        /\ \A k \in 1..Len(area_list) :
              LET i == area_list[k][1]
                  b == AREA_RANGE[area_list[k][2]].bounds
                  panel == result.render.child_axes[i + 1]
              IN  /\ i = k - 1
                  /\ area_list[k][2] = AREA_NAMES[k]
                  /\ panel.xlim = <<b.min_x, b.max_x>>
                  /\ panel.ylim = <<b.min_y, b.max_y>>

C1_Witness ==
    /\ Rendered
    /\ result.op = "plot_boundary"
    /\ Len(result.render.child_axes) = 7
    /\ result.render.child_axes[4].xlim = <<11942, 11950>>

(***************************************************************************)
(* C2 as claimed: for every region, the main body included, the panel      *)
(* rectangle has height / width equal to the aspect of the bounding box.   *)
(***************************************************************************)
C2_EveryPanelAspect ==
    Rendered =>
        \A k \in 1..Len(AREA_NAMES) :
            RectRatio(result.render.child_axes[k].bounds) = BBoxRatio(k)

(***************************************************************************)
(* C2 amended: the rectangle of every nested region of level 1 or 2 has    *)
(* height / width equal to (max_y - min_y) / (max_x - min_x) of its        *)
(* bounding box; the level-0 main body has the whole unit square.          *)
(***************************************************************************)
C2_InsetPanelAspect ==
    Rendered =>
        \A k \in 1..Len(AREA_NAMES) :
            LET rect == result.render.child_axes[k].bounds
            IN  IF Region(k).level >= 1
                THEN RectRatio(rect) = BBoxRatio(k)
                ELSE rect = <<Frac(0), Frac(0), Frac(1000), Frac(1000)>>

C2_Witness ==
    /\ Rendered
    /\ \E k \in 1..Len(AREA_NAMES) :
          /\ Region(k).level = 2
          /\ RectRatio(result.render.child_axes[k].bounds) = Rat(3, 4)
    /\ \E k \in 1..Len(AREA_NAMES) :
          /\ Region(k).level = 0
          /\ RectRatio(result.render.child_axes[k].bounds) # BBoxRatio(k)

(***************************************************************************)
(* C3.  Every drawing event of every renderer made in the iteration for    *)
(* region a with loop index i lands on a panel whose extent is the         *)
(* bounding box of region a; the geometry it draws was queried with that   *)
(* bounding box (so it lies in it), and a histogram's range is that box.   *)
(***************************************************************************)
C3_DrawsOnOwnPanel ==
    Rendered =>
        \A n \in 1..Len(result.render.events) :
            LET e == result.render.events[n]
            IN  e.kind \in PanelKinds =>
                    LET panel == result.render.child_axes[e.i + 1]
                        b == AREA_RANGE[e.a].bounds
                    IN  /\ e.a = AREA_NAMES[e.i + 1]
                        /\ panel.xlim = <<b.min_x, b.max_x>>
                        /\ panel.ylim = <<b.min_y, b.max_y>>
                        /\ e.kind \in {"boundary", "fill", "town_fill"} =>
                              /\ e.bbox = RegionBox(e.i + 1)
                              /\ e.kind = "boundary" =>
                                    \A m \in 1..Len(e.feats) :
                                        InRegion(e.feats[m], e.i + 1)
                              /\ e.kind # "boundary" =>
                                    \A m \in 1..Len(e.feats) :
                                        InRegion(e.feats[m].feat, e.i + 1)
                        /\ e.kind = "hist2d" => e.range = <<panel.xlim, panel.ylim>>

C3_Witness ==
    /\ Rendered
    /\ result.op = "plot_choropleth"
    /\ result.render.exc = "none"
    /\ \E n \in 1..Len(result.render.events) :
          /\ result.render.events[n].kind = "fill"
          /\ result.render.events[n].i = 3
          /\ result.render.events[n].a = "kinmen-wuqiu"

(***************************************************************************)
(* Vocabulary of the choropleth properties, stated on the request and the  *)
(* geometry store rather than on the join the renderer computed.           *)
(***************************************************************************)
IsChoropleth == Rendered /\ result.op = "plot_choropleth"

SuppliedRows == result.params.data.rows

RowMatches(f, row, level) ==
    /\ row.county = f.COUNTYNAME
    /\ level = "town" => row.town = f.TOWNNAME

Matched(f, rows, level) == \E n \in 1..Len(rows) : RowMatches(f, rows[n], level)

\* the polygons of panel k at the given level
PanelFeatures(level, k) ==
    LET shp == IF level = "town" THEN TOWN_SHP ELSE COUNTY_SHP
    IN  { shp[n] : n \in { m \in 1..Len(shp) : InRegion(shp[m], k) } }

\* the polygons a render filled on panel k
Filled(render, k) ==
    LET fills == EventsOfKind(PanelEvents(render, k - 1), "fill")
    IN  UNION { { fills[n].feats[m].feat : m \in 1..Len(fills[n].feats) } :
                n \in 1..Len(fills) }

IsCountyOverlay(e, k) ==
    /\ e.kind = "boundary"
    /\ e.color = "black"
    /\ { e.feats[m] : m \in 1..Len(e.feats) } = PanelFeatures("county", k)

BoundaryOnly(render, k) ==
    /\ Len(PanelEvents(render, k - 1)) = 1
    /\ IsCountyOverlay(PanelEvents(render, k - 1)[1], k)

ValuesOf(rows) == { rows[n].value : n \in 1..Len(rows) }

MinOf(S) == CHOOSE v \in S : \A w \in S : v <= w

MaxOf(S) == CHOOSE v \in S : \A w \in S : v >= w

(***************************************************************************)
(* C4 as claimed: in plot_choropleth, a panel whose polygons are all       *)
(* covered by the rows is filled completely and takes no fallback; a panel *)
(* none of whose polygons is matched, also when no rows are supplied, is   *)
(* drawn boundary-only and the call raises nothing.                        *)
(***************************************************************************)
C4_JoinFallbackNeverRaises ==
    IsChoropleth =>
        \A k \in 1..Len(AREA_NAMES) :
            LET feats == PanelFeatures(result.params.level, k)
            IN  /\ (feats # {} /\ \A f \in feats :
                                      Matched(f, SuppliedRows, result.params.level))
                       => /\ Filled(result.render, k) = feats
                          /\ ~BoundaryOnly(result.render, k)
                /\ (\A f \in feats : ~Matched(f, SuppliedRows, result.params.level))
                       => /\ result.render.exc = "none"
                          /\ BoundaryOnly(result.render, k)

(***************************************************************************)
(* C5 as claimed: in plot_choropleth, on every panel, for the empty, the   *)
(* partial and the full join and for both levels, the county boundary is   *)
(* drawn exactly once and is the last thing drawn on the panel, at most    *)
(* one fill precedes it, and the filled polygons are exactly the polygons  *)
(* of the panel whose key equals the key of some row.                      *)
(***************************************************************************)
OverlayOnceAfterFill(k) ==
    LET pe == PanelEvents(result.render, k - 1)
        feats == PanelFeatures(result.params.level, k)
    IN  /\ pe # <<>>
        /\ Len(EventsOfKind(pe, "boundary")) = 1
        /\ IsCountyOverlay(pe[Len(pe)], k)
        /\ Len(pe) <= 2
        /\ Len(pe) = 2 => pe[1].kind = "fill"
        /\ Filled(result.render, k) =
               { f \in feats : Matched(f, SuppliedRows, result.params.level) }

C5_OverlayOnEveryPanel ==
    IsChoropleth => \A k \in 1..Len(AREA_NAMES) : OverlayOnceAfterFill(k)

\* C5 for the requests that supply at least one row: it holds of them
C5_OverlayOnceAfterFill ==
    (IsChoropleth /\ SuppliedRows # <<>>) =>
        /\ result.render.exc = "none"
        /\ \A k \in 1..Len(AREA_NAMES) : OverlayOnceAfterFill(k)

\* a partial join at town level: of the three towns of panel "taiwan" that
\* the rows could match, only Wuqiu is matched and filled
C5_Witness ==
    /\ IsChoropleth
    /\ result.params.level = "town"
    /\ result.render.exc = "none"
    /\ Filled(result.render, 1) = { Town("Kinmen", "Wuqiu", <<11945, 2498, 11948, 2500>>) }
    /\ Cardinality(PanelFeatures("town", 1)) > 1
    /\ BoundaryOnly(result.render, 2)

(***************************************************************************)
(* C6 as claimed: every fill of a plot_choropleth call is normalised with  *)
(* the minimum and maximum of the value column of all supplied rows, the   *)
(* range the legend shows.                                                 *)
(***************************************************************************)
C6_FillUsesSharedScale ==
    IsChoropleth =>
        \A n \in 1..Len(result.render.events) :
            LET e == result.render.events[n]
            IN  e.kind = "fill" =>
                    /\ e.vmin = Num(MinOf(ValuesOf(SuppliedRows)))
                    /\ e.vmax = Num(MaxOf(ValuesOf(SuppliedRows)))

(***************************************************************************)
(* C7 as claimed: every plot_choropleth call draws exactly one legend,     *)
(* after all panels, whose range is the minimum and maximum of the value   *)
(* column over all supplied rows, matched or not, however many panels fell *)
(* back to boundary-only; hidden ticks only change the tick locator.       *)
(***************************************************************************)
OneLegendOverAllRows ==
    LET events == result.render.events
        bars == EventsOfKind(events, "colorbar")
    IN  /\ Len(bars) = 1
        /\ events[Len(events)].kind = "colorbar"
        /\ SuppliedRows # <<>> =>
              /\ bars[1].vmin = Num(MinOf(ValuesOf(SuppliedRows)))
              /\ bars[1].vmax = Num(MaxOf(ValuesOf(SuppliedRows)))
        /\ bars[1].locator = "NullLocator" <=> ~result.params.colorbar_tick_visible

C7_EveryCallOneLegend == IsChoropleth => OneLegendOverAllRows

\* C7 for the requests that supply at least one row: it holds of them
C7_OneLegendOverAllRows ==
    (IsChoropleth /\ SuppliedRows # <<>>) => OneLegendOverAllRows

\* hidden ticks, six panels boundary-only, and the maximum of the range
\* coming from a row that matches no polygon
C7_Witness ==
    /\ IsChoropleth
    /\ result.render.exc = "none"
    /\ ~result.params.colorbar_tick_visible
    /\ SuppliedRows = <<Row("Atlantis", "Nowhere", 20), Row("Taipei", "Daan", 10)>>
    /\ Cardinality({ k \in 1..Len(AREA_NAMES) : BoundaryOnly(result.render, k) }) = 6
    /\ EventsOfKind(result.render.events, "colorbar")[1].vmax = Num(20)

(***************************************************************************)
(* C8.  Rendering any permutation of the supplied rows gives the same      *)
(* legend range and the same set of filled polygons in every panel.        *)
(***************************************************************************)
IndexPermutations(n) ==
    { p \in [1..n -> 1..n] : \A a, b \in 1..n : p[a] = p[b] => a = b }

C8_RowOrderIndependent ==
    IsChoropleth =>
        \A p \in IndexPermutations(Len(SuppliedRows)) :
            LET permuted == [n \in 1..Len(SuppliedRows) |-> SuppliedRows[p[n]]]
                other == plot_choropleth(
                             ChoroplethParams(permuted, result.params.column,
                                 result.params.level, result.params.cmap,
                                 result.params.colorbar_format,
                                 result.params.colorbar_tick_visible))
            IN  /\ other.exc = result.render.exc
                /\ EventsOfKind(other.events, "colorbar")
                       = EventsOfKind(result.render.events, "colorbar")
                /\ \A k \in 1..Len(AREA_NAMES) :
                       Filled(other, k) = Filled(result.render, k)

C8_Witness ==
    /\ IsChoropleth
    /\ result.render.exc = "none"
    /\ SuppliedRows = <<Row("Penghu", "Magong", 20), Row("Taipei", "Daan", 10)>>
    /\ EventsOfKind(result.render.events, "colorbar")[1].vmin = Num(10)
    /\ Filled(result.render, 2) # {}

(***************************************************************************)
(* C9 as claimed: a plot_dot or plot_bubble request whose x and y differ   *)
(* in length, or a plot_bubble request whose size or color differs in      *)
(* length from x, fails before a canvas is created or anything is drawn.   *)
(***************************************************************************)
LengthMismatch ==
    /\ Rendered
    /\ \/ /\ result.op \in {"plot_dot", "plot_bubble"}
          /\ Len(result.params.x) # Len(result.params.y)
       \/ /\ result.op = "plot_bubble"
          /\ \/ Len(result.params.size) # Len(result.params.x)
             \/ Len(result.params.color) # Len(result.params.x)

C9_MismatchFailsBeforeDrawing ==
    LengthMismatch =>
        /\ result.render.exc # "none"
        /\ result.render.events = <<>>

(***************************************************************************)
(* C10.  A plot_dot call with as many x as y succeeds, and each point is   *)
(* shown in panel i exactly when it lies in the bounding box of region i:  *)
(* in every such panel, and in none when it lies in no bounding box.       *)
(***************************************************************************)
InBounds(x, y, b) ==
    /\ b.min_x <= x /\ x <= b.max_x
    /\ b.min_y <= y /\ y <= b.max_y

\* point j of the request is drawn on panel k and inside the panel's view
Shown(render, k, j) ==
    \E n \in 1..Len(render.events) :
        LET e == render.events[n]
            panel == render.child_axes[k]
        IN  /\ e.kind = "scatter"
            /\ e.i = k - 1
            /\ j \in 1..Len(e.x)
            /\ e.x[j] = result.params.x[j]
            /\ e.y[j] = result.params.y[j]
            /\ panel.xlim[1] <= e.x[j] /\ e.x[j] <= panel.xlim[2]
            /\ panel.ylim[1] <= e.y[j] /\ e.y[j] <= panel.ylim[2]

C10_PointShownIffInRegion ==
    (Rendered /\ result.op = "plot_dot"
        /\ Len(result.params.x) = Len(result.params.y)) =>
        /\ result.render.exc = "none"
        /\ \A k \in 1..Len(AREA_NAMES), j \in 1..Len(result.params.x) :
              Shown(result.render, k, j)
                  <=> InBounds(result.params.x[j], result.params.y[j], Region(k).bounds)

\* one point inside the boxes of both "taiwan" and "penghu", one in no box
C10_Witness ==
    /\ Rendered
    /\ result.op = "plot_dot"
    /\ result.params.x = <<11957, 10000>>
    /\ result.params.y = <<2360, 2360>>
    /\ result.render.exc = "none"
    /\ { k \in 1..Len(AREA_NAMES) : Shown(result.render, k, 1) } = {1, 2}
    /\ { k \in 1..Len(AREA_NAMES) : Shown(result.render, k, 2) } = {}

Step(t, from, to) == handler[t].pc = from /\ handler'[t].pc = to

\* a step in which Graph.cleanup_memory and `request_counter = 0` both ran
PurgeFires ==
    /\ request_counter' = 0
    /\ registry' = {}
    /\ rcParams' = "defaults"

\* a step of manual_cleanup: the only one that starts the count of the
\* calls since a manual cleanup and leaves app and the handlers alone
ManualCleanupStep ==
    /\ since_manual' = Some(0)
    /\ app' = app
    /\ handler' = handler

\* a handler that has built its canvas and has not yet left fig_to_image
HoldsCanvas(t) ==
    \/ handler[t].pc = "encode"
    \/ handler[t].pc = "except" /\ handler[t].failed = "raises_after_base"

(***************************************************************************)
(* C12.  A render call served by handle_plot_request holds no canvas once  *)
(* it has answered, whatever the exit: when plot_func raised after the     *)
(* canvas was built the except clause closes it before the error response  *)
(* is made, when savefig raised the canvas is closed before the except      *)
(* clause is entered, and on success it is closed with the encoding.       *)
(* Until then the canvas the call built is alive.                          *)
(***************************************************************************)
C12_CanvasReleasedOnEveryExit ==
    /\ \A t \in Threads :
          /\ handler[t].pc = "idle" => t \notin registry
          /\ (handler[t].pc = "except" /\ handler[t].failed = "savefig_raises")
                 => t \notin registry
          /\ HoldsCanvas(t) => t \in registry
    /\ AllIdle => registry = {}

C12_Witness ==
    /\ AllIdle
    /\ registry = {}
    /\ \E t, u \in Threads :
          /\ handler[t].status = "500" /\ handler[t].failed = "raises_after_base"
          /\ handler[u].status = "500" /\ handler[u].failed = "savefig_raises"

(***************************************************************************)
(* C13.  The periodic purge of cleanup_memory_if_needed fires in the       *)
(* render call that is the CLEANUP_INTERVAL-th since the counter was last  *)
(* reset (every call counts, also one whose render fails later), it closes *)
(* all figures and leaves the counter at zero, and it fires in no other    *)
(* call; the steps after it (plot_func, fig_to_image, the except clause)   *)
(* leave the counter as it is.                                             *)
(***************************************************************************)
C13_PurgeEveryInterval ==
    [][ \A t \in Threads :
          /\ Step(t, "store", "check") => request_counter' = since_reset
          /\ Step(t, "check", "plot") =>
                IF since_reset = CLEANUP_INTERVAL
                THEN PurgeFires
                ELSE /\ since_reset < CLEANUP_INTERVAL
                     /\ UNCHANGED <<request_counter, registry, rcParams>>
          /\ handler[t].pc \in {"plot", "encode", "except"}
                => request_counter' = request_counter
      ]_vars

C13_Witness ==
    \E t, u \in Threads :
        /\ handler[t].pc = "plot"
        /\ request_counter = 0
        /\ since_reset = 0
        /\ handler[u].status = "500"

(***************************************************************************)
(* C14.  The manual cleanup closes every open figure and sets the counter  *)
(* to zero; the first periodic purge after it fires in the                 *)
(* CLEANUP_INTERVAL-th render call that follows and in none before; a      *)
(* second manual cleanup right after the first changes nothing.            *)
(***************************************************************************)
C14_ManualCleanupResets ==
    [][ /\ ManualCleanupStep =>
              /\ registry' = {}
              /\ request_counter' = 0
              /\ since_manual = Some(0) => UNCHANGED vars
        /\ \A t \in Threads :
              (Step(t, "check", "plot") /\ since_manual # None) =>
                  IF since_manual = Some(CLEANUP_INTERVAL)
                  THEN PurgeFires
                  ELSE /\ since_manual[1] < CLEANUP_INTERVAL
                       /\ request_counter' = request_counter
                       /\ request_counter' # 0
      ]_vars

C14_Witness ==
    /\ since_manual = Some(CLEANUP_INTERVAL)
    /\ request_counter = CLEANUP_INTERVAL
    /\ \E t \in Threads : handler[t].pc = "check"

(***************************************************************************)
(* C17 as claimed: when handle_plot_request runs in several threads at     *)
(* once, the canvas a call has built stays open until that call has        *)
(* encoded it, whatever cleanup the other calls run, and once all calls    *)
(* are completed the counter has counted every one of them.                *)
(***************************************************************************)
C17_ThreadsShareNoCanvas ==
    /\ \A t \in Threads : handler[t].pc = "encode" => t \in registry
    /\ (AllIdle /\ app = "serving") => request_counter = since_reset

(***************************************************************************)
(* C15 as claimed: a choropleth call whose level is neither county nor     *)
(* town ends in a validation error with no canvas created and nothing      *)
(* drawn; with level town the filled polygons are towns matched to a row   *)
(* on county and town, with level county they are counties matched on      *)
(* county alone.                                                           *)
(***************************************************************************)
C15_UnknownLevelRejected ==
    IsChoropleth =>
        LET level == result.params.level
        IN  IF level \notin {"county", "town"}
            THEN /\ result.render.exc = "ValidationError"
                 /\ NumFigures(result.render) = 0
                 /\ \A k \in 1..Len(AREA_NAMES) :
                        PanelEvents(result.render, k - 1) = <<>>
            ELSE \A k \in 1..Len(AREA_NAMES) :
                     \A f \in Filled(result.render, k) :
                         /\ ("TOWNNAME" \in DOMAIN f) <=> (level = "town")
                         /\ Matched(f, SuppliedRows, level)

(***************************************************************************)
(* Vocabulary of C16.                                                      *)
(***************************************************************************)
IsBubble == Rendered /\ result.op = "plot_bubble"

Uniform(q) == \A m, n \in 1..Len(q) : q[m] = q[n]

\* the lengths agree, and a field the caller left out is uniform
DefaultsOnePerPoint(params, size, color) ==
    /\ Len(params.size) = Len(params.x)
    /\ Len(params.color) = Len(params.x)
    /\ size = None => Uniform(params.size)
    /\ color = None => Uniform(params.color)

\* the inputs of a caller that passes size and color of the length of x, or
\* leaves them out
DirectInputs ==
    { in \in [ x : SeqsUpTo(BubbleXPool, MaxPoints),
               size : OptionalSeqs(SizePool), color : OptionalSeqs(ColorPool) ] :
        /\ in.size # None => Len(in.size[1]) = Len(in.x)
        /\ in.color # None => Len(in.color[1]) = Len(in.x) }

(***************************************************************************)
(* C16 as claimed: when a bubble request leaves out size or color, the     *)
(* parameters the renderer gets have one size and one colour per point,    *)
(* the default being the same value for all points, so that                *)
(* len(x) = len(size) = len(color) whatever x is; this for BubbleParams    *)
(* built directly with size or color None and for BubbleParams built by    *)
(* the service from a BubbleData.                                          *)
(***************************************************************************)
C16_DefaultsOnePerPoint ==
    /\ \A in \in DirectInputs :
          DefaultsOnePerPoint(BubbleParams(in.x, in.x, in.size, in.color, 50),
                              in.size, in.color)
    /\ ( /\ IsBubble
         /\ result.request.size = None \/ result.request.color = None
         /\ result.request.size # None =>
                Len(result.request.size[1]) = Len(result.params.x)
         /\ result.request.color # None =>
                Len(result.request.color[1]) = Len(result.params.x) )
          => DefaultsOnePerPoint(result.params, result.request.size,
                                 result.request.color)

\* the half of C16 that holds: BubbleParams built directly
C16_DirectDefaultsOnePerPoint ==
    \A in \in DirectInputs :
        DefaultsOnePerPoint(BubbleParams(in.x, in.x, in.size, in.color, 50),
                            in.size, in.color)

(***************************************************************************)
(* Vocabulary of C18.                                                      *)
(***************************************************************************)
\* v lies between the edges of bin c of the `bins` equal bins of [lo, hi]
\* (the last bin includes its upper edge)
BetweenEdges(v, c, lo, hi, bins) ==
    /\ (c - 1) * (hi - lo) <= (v - lo) * bins
    /\ \/ (v - lo) * bins < c * (hi - lo)
       \/ c = bins /\ v = hi

PointsInBin(e, c) ==
    { j \in 1..Len(e.x) :
        /\ BetweenEdges(e.x[j], c[1], e.range[1][1], e.range[1][2], e.bins)
        /\ BetweenEdges(e.y[j], c[2], e.range[2][1], e.range[2][2], e.bins) }

(***************************************************************************)
(* C18.  In plot_hist2d the histogram of panel i is taken over the         *)
(* bounding box of region i: exactly the points inside that box are        *)
(* counted, each in the bin whose edges enclose it; every panel has the    *)
(* bin count of the request; and the bins drawn are those whose count is   *)
(* at least cmin.                                                          *)
(***************************************************************************)
C18_DensityPerRegion ==
    (Rendered /\ result.op = "plot_hist2d") =>
        LET hists == EventsOfKind(result.render.events, "hist2d")
        IN  \A n \in 1..Len(hists) :
                LET e == hists[n]
                    b == AREA_RANGE[e.a].bounds
                IN  /\ e.a = AREA_NAMES[e.i + 1]
                    /\ e.range = << <<b.min_x, b.max_x>>, <<b.min_y, b.max_y>> >>
                    /\ e.bins = result.params.bins
                    /\ DOMAIN e.h \subseteq (1..e.bins) \X (1..e.bins)
                    /\ \A c \in DOMAIN e.h :
                          /\ e.h[c] = Cardinality(PointsInBin(e, c))
                          /\ e.h[c] >= 1
                          /\ c \in e.drawn <=> e.h[c] >= result.params.cmin
                    /\ e.drawn \subseteq DOMAIN e.h
                    /\ \A j \in 1..Len(e.x) :
                          InBounds(e.x[j], e.y[j], b)
                              <=> \E c \in DOMAIN e.h : j \in PointsInBin(e, c)

C18_Witness ==
    /\ Rendered
    /\ result.op = "plot_hist2d"
    /\ result.params.cmin = 2
    /\ \E n \in 1..Len(result.render.events) :
          LET e == result.render.events[n]
          IN  /\ e.kind = "hist2d"
              /\ \E c \in DOMAIN e.h : e.h[c] = 1 /\ c \notin e.drawn
              /\ \E j \in 1..Len(e.x) :
                    ~InBounds(e.x[j], e.y[j], AREA_RANGE[e.a].bounds)

(***************************************************************************)
(* Vocabulary of C19.                                                      *)
(***************************************************************************)
\* the rectangle (x, y, w, h) of the panel of region k, in canvas fractions
PanelRect(k) == result.render.child_axes[k].bounds

Left(r) == r[1]

Bottom(r) == r[2]

Right(r) == RAdd(r[1], r[3])

Top(r) == RAdd(r[2], r[4])

\* the two rectangles share an area
Overlap(r, q) ==
    /\ RLt(Left(r), Right(q)) /\ RLt(Left(q), Right(r))
    /\ RLt(Bottom(r), Top(q)) /\ RLt(Bottom(q), Top(r))

InsideUnit(r) ==
    /\ RLe(Frac(0), Left(r)) /\ RLt(Left(r), Right(r)) /\ RLe(Right(r), Frac(1000))
    /\ RLe(Frac(0), Bottom(r)) /\ RLt(Bottom(r), Top(r)) /\ RLe(Top(r), Frac(1000))

PanelsOfLevel(level) == { k \in 1..Len(AREA_NAMES) : Region(k).level = level }

\* the level-1 region a level-2 region is placed by: the last one before it
ParentOf(k) ==
    CHOOSE j \in PanelsOfLevel(1) :
        j < k /\ \A m \in PanelsOfLevel(1) : m < k => m <= j

\* level-1 panels j < k with no level-1 panel between them
Consecutive(j, k) ==
    j < k /\ \A m \in PanelsOfLevel(1) : ~(j < m /\ m < k)

StackedWithGap ==
    \A j, k \in PanelsOfLevel(1) :
        /\ Left(PanelRect(j)) = Left(PanelRect(k))
        /\ PanelRect(j)[3] = PanelRect(k)[3]
        /\ Consecutive(j, k) => RLt(Top(PanelRect(j)), Bottom(PanelRect(k)))

AllInsideUnit ==
    \A k \in PanelsOfLevel(1) \cup PanelsOfLevel(2) : InsideUnit(PanelRect(k))

(***************************************************************************)
(* C19 as claimed: the level-1 panels are stacked at one horizontal        *)
(* offset and width with a gap between consecutive ones, every nested      *)
(* panel lies inside the unit canvas, and a level-2 panel overlaps no      *)
(* other level-1 or level-2 panel, its own parent included.                *)
(***************************************************************************)
C19_Level2OverlapsNoPanel ==
    Rendered =>
        /\ StackedWithGap
        /\ AllInsideUnit
        /\ \A k \in PanelsOfLevel(2) :
              \A j \in (PanelsOfLevel(1) \cup PanelsOfLevel(2)) \ {k} :
                  ~Overlap(PanelRect(k), PanelRect(j))

(***************************************************************************)
(* C19 amended: the level-1 panels are stacked at one horizontal offset    *)
(* and width with a gap between consecutive ones, every nested panel lies  *)
(* inside the unit canvas, and a level-2 panel overlaps its own level-1    *)
(* parent (it is set on the parent's right edge) and no other level-1 or   *)
(* level-2 panel.                                                          *)
(***************************************************************************)
C19_Level2OverlapsOnlyParent ==
    Rendered =>
        /\ StackedWithGap
        /\ AllInsideUnit
        /\ \A k \in PanelsOfLevel(2) :
              \A j \in (PanelsOfLevel(1) \cup PanelsOfLevel(2)) \ {k} :
                  Overlap(PanelRect(k), PanelRect(j)) <=> j = ParentOf(k)

C19_Witness ==
    /\ Rendered
    /\ PanelsOfLevel(1) = {2, 3, 5}
    /\ PanelsOfLevel(2) = {4, 6, 7}
    /\ ParentOf(4) = 3 /\ ParentOf(6) = 5 /\ ParentOf(7) = 5
    /\ Overlap(PanelRect(4), PanelRect(3))
    /\ RSub(Bottom(PanelRect(3)), Top(PanelRect(2))) = Frac(10)
    /\ ~Overlap(PanelRect(6), PanelRect(7))

(***************************************************************************)
(* Vocabulary of C20.                                                      *)
(***************************************************************************)
IsSubsidy == Rendered /\ result.op = "plot_boundary_with_subsidy"

\* the colours the legend shows for a category
LegendColors(render, category) ==
    LET legends == EventsOfKind(render.events, "legend")
    IN  UNION { { legends[n].handles[m].color :
                    m \in { h \in 1..Len(legends[n].handles) :
                              legends[n].handles[h].label = category } } :
                n \in 1..Len(legends) }

\* the towns a render filled, each with its category and its fill colour
FilledTowns(render) ==
    LET fills == EventsOfKind(render.events, "town_fill")
    IN  UNION { { fills[n].feats[m] : m \in 1..Len(fills[n].feats) } :
                n \in 1..Len(fills) }

(***************************************************************************)
(* C20 as claimed: in plot_boundary_with_subsidy every category of the     *)
(* colour table has one legend entry, whose colour is the colour the       *)
(* towns of that category are filled with; a town without a classification *)
(* is filled with the transparent colour and has no legend entry.          *)
(***************************************************************************)
C20_LegendMatchesFill ==
    IsSubsidy =>
        /\ \A category \in DOMAIN colormap :
              LegendColors(result.render, category) = {colormap[category]}
        /\ \A t \in FilledTowns(result.render) :
              IF t.town_type \in DOMAIN colormap
              THEN LegendColors(result.render, t.town_type) = {t.color}
              ELSE /\ t.color = "#ffffff00"
                   /\ LegendColors(result.render, t.town_type) = {}

\* the part of C20 that holds: all categories but plain_indigenous, and the
\* towns without a classification
C20_LegendMatchesFillButOne ==
    IsSubsidy =>
        /\ \A category \in DOMAIN colormap \ {"plain_indigenous"} :
              LegendColors(result.render, category) = {colormap[category]}
        /\ \A t \in FilledTowns(result.render) :
              /\ t.color = colormap_get(t.town_type)
              /\ t.town_type \notin DOMAIN colormap =>
                    /\ t.color = "#ffffff00"
                    /\ LegendColors(result.render, t.town_type) = {}

(***************************************************************************)
(* C21.  Whenever no request is being served, after any sequence of        *)
(* startup, render calls (returning or failing) and manual cleanups,       *)
(* 0 <= request_counter < CLEANUP_INTERVAL.  The periodic purge runs       *)
(* before the canvas of the call that triggers it is created: a call has   *)
(* no canvas while its counting and its purge are still to come, and once  *)
(* it is past them the counter is below CLEANUP_INTERVAL and the canvas    *)
(* it then builds stays open until it is encoded.                          *)
(***************************************************************************)
C21_CounterBelowInterval ==
    /\ AllIdle => (0 <= request_counter /\ request_counter < CLEANUP_INTERVAL)
    /\ \A t \in Threads :
          /\ handler[t].pc \in {"store", "check", "plot"} => t \notin registry
          /\ handler[t].pc \in {"plot", "encode", "except"} =>
                (0 <= request_counter /\ request_counter < CLEANUP_INTERVAL)
          /\ handler[t].pc = "encode" => t \in registry

\* the call that triggered the purge is about to encode the canvas it built
C21_Witness ==
    \E t \in Threads :
        /\ handler[t].pc = "encode"
        /\ t \in registry
        /\ request_counter = 0
        /\ since_reset = 0
        /\ since_manual = None
====
